---- MODULE Spec2Model ----
(***************************************************************************)
(* A model of the ADASS2019 2D-array benchmark harness (Run.py) and of the *)
(* Python kernels it times (csub.py, csubnpv.py).                          *)
(*                                                                         *)
(* Run.py is modelled as a state machine: the driver loop over the test    *)
(* registry, each BuildAndTimeProgram call as a sequence of stages (one    *)
(* step per external command), and the search for the fastest cell.        *)
(* Times are exact rationals <<numerator, denominator>>.                   *)
(*                                                                         *)
(* Spec      the whole driver, from the command line to the matrix.        *)
(* SpecFair  Spec for a program that keeps running until it has ended.     *)
(* SpecCall  one BuildAndTimeProgram call on any argument tuple, with the  *)
(*           log of the commands it executes, and the driver's use of what *)
(*           it returns.                                                   *)
(* SpecExec  one ExecuteCommand call on any command of the registry.       *)
(* SpecList  one ListVersion call, on any output of the version command.   *)
(* SpecSubr  the subr() kernels of csub.py and csubnpv.py on the same      *)
(*           input array; float64 is scaled down to MantBits mantissa bits.*)
(* SpecSubrNA  the subr() kernels of csub.py and csubnpna.py, likewise.    *)
(***************************************************************************)
EXTENDS Integers, Sequences, FiniteSets, TLC

(***************************************************************************)
(* Bounds of the model.                                                    *)
(***************************************************************************)
\* largest elapsed time, in whole clock ticks, of one timed run
MaxTicks == 2
\* largest number of passes given on the command line
MaxNtests == 2
\* largest array dimension given to the kernels
MaxDim == 2
\* mantissa bits of the floating-point format of the kernels' arrays
MantBits == 3
\* largest number of characters a version command writes to one stream
MaxText == 3

(***************************************************************************)
(* Exact rational arithmetic standing for the float arithmetic of Run.py.  *)
(***************************************************************************)
Abs(n) == IF n < 0 THEN -n ELSE n

RECURSIVE GCD(_, _)
GCD(a, b) == IF b = 0 THEN a ELSE GCD(b, a % b)

Norm(n, d) ==
    LET g == GCD(Abs(n), d) IN <<n \div g, d \div g>>

Zero == <<0, 1>>

One == <<1, 1>>

FromInt(n) == <<n, 1>>

RSub(a, b) == Norm(a[1] * b[2] - b[1] * a[2], a[2] * b[2])

RMulInt(a, k) ==
    LET g == GCD(k, a[2]) IN Norm(a[1] * (k \div g), a[2] \div g)

\* k is not 0
RDivInt(a, k) ==
    IF a[1] = 0 THEN Zero
    ELSE LET g == GCD(Abs(a[1]), Abs(k))
             n == IF k < 0 THEN -a[1] ELSE a[1]
         IN Norm(n \div g, a[2] * (Abs(k) \div g))

RDiv(a, b) ==
    IF a[1] = 0 THEN Zero ELSE Norm(a[1] * b[2], a[2] * b[1])

RLess(a, b) == a[1] * b[2] < b[1] * a[2]

RPos(a) == a[1] > 0

(***************************************************************************)
(* Python values.                                                          *)
(***************************************************************************)
None == "<None>"

Unbound == "<unbound>"

\* truth value of  if (Status)
Truthy(s) == s # None /\ s # ""

\* What a command has written is held as an object with its type: str
\* after  decode('utf-8'), bytes as returned by Proc.communicate() before.
Str(text) == <<"str", text>>

\* a bytes object as returned by Proc.communicate()
Bytes(text) == <<"bytes", text>>

\* the characters of a str object
Text(object) == object[2]

\* a local that would hold such an object and has not been assigned yet
Unassigned == <<Unbound>>

(***************************************************************************)
(* The test registry: descriptors of FullTests, in registry order.         *)
(***************************************************************************)
Swift ==
    [LangTech |-> "Swift", CompOpt |-> "Swiftc",
     Build1 |-> "xcrun swiftc -o cstest cstest.swift", Build2 |-> "",
     Exec |-> "./cstest", Nrpt |-> 1000, Cleanup |-> "rm -f cstest"]

Rref ==
    [LangTech |-> "R : ref class", CompOpt |-> "Rscript",
     Build1 |-> "", Build2 |-> "",
     Exec |-> "Rscript csubref.r", Nrpt |-> 3, Cleanup |-> ""]

RawCclang ==
    [LangTech |-> "C : raw", CompOpt |-> "clang",
     Build1 |-> "c++ -c csub.cpp -o csub.o",
     Build2 |-> "c++ -o cmain cmain.cpp csub.o",
     Exec |-> "./cmain", Nrpt |-> 100000, Cleanup |-> "rm -f cmain csub.o"]

FullTests == <<Swift, Rref, RawCclang>>

NumTests == Len(FullTests)

(***************************************************************************)
(* ExecuteCommand.  proc describes what the operating system and the       *)
(* command do: whether the launch works, what is written to the two pipes  *)
(* and whether it is valid UTF-8, and the exit status.                     *)
(***************************************************************************)
Launches == {"ok", "oserror", "interrupt"}

ExitCodes == {0, 1}

\* a command that cannot be launched or is interrupted writes nothing
Procs(Command) ==
    [launch : {"oserror", "interrupt"},
     out : {""}, outValid : {TRUE}, err : {""}, errValid : {TRUE},
     exit : {0}]
    \cup
    [launch : {"ok"},
     out : {"out of " \o Command}, outValid : BOOLEAN,
     err : {"err of " \o Command}, errValid : BOOLEAN,
     exit : ExitCodes]

ErrorStatus(Command) == "Error executing '" \o Command \o "'"

ExecuteCommand(Command, proc) ==
    IF proc.launch = "interrupt"
    THEN [exited |-> TRUE, Status |-> None,
          Output |-> Str(""), Errors |-> Str("")]
    ELSE IF proc.launch = "oserror"
    THEN [exited |-> FALSE, Status |-> ErrorStatus(Command),
          Output |-> Str(""), Errors |-> Str("")]
    ELSE IF ~proc.outValid
    THEN [exited |-> FALSE, Status |-> ErrorStatus(Command),
          Output |-> Bytes(proc.out), Errors |-> Bytes(proc.err)]
    ELSE IF ~proc.errValid
    THEN [exited |-> FALSE, Status |-> ErrorStatus(Command),
          Output |-> Str(proc.out), Errors |-> Bytes(proc.err)]
    ELSE [exited |-> FALSE,
          Status |-> IF proc.exit # 0 THEN ErrorStatus(Command) ELSE None,
          Output |-> Str(proc.out), Errors |-> Str(proc.err)]

(***************************************************************************)
(* The label lists of the driver and the indices into the Results table.   *)
(***************************************************************************)
\* position of a label under  key = lambda s : s.lower()  and string order
LowerRank(s) ==
    CASE s = "C : raw" -> 1
      [] s = "R : ref class" -> 2
      [] s = "Swift" -> 3
      [] s = "clang" -> 4
      [] s = "Rscript" -> 5
      [] s = "Swiftc" -> 6

InList(x, list) == \E i \in 1..Len(list) : list[i] = x

RECURSIVE Labels(_, _, _)
Labels(field, k, acc) ==
    IF k > NumTests THEN acc
    ELSE LET l == IF field = "LangTech" THEN FullTests[k].LangTech
                  ELSE FullTests[k].CompOpt
         IN Labels(field, k + 1, IF InList(l, acc) THEN acc ELSE Append(acc, l))

\* insert x into the sorted list, after the elements whose key is not larger
RECURSIVE Insert(_, _)
Insert(x, list) ==
    IF list = <<>> THEN <<x>>
    ELSE IF LowerRank(x) < LowerRank(Head(list)) THEN <<x>> \o list
    ELSE <<Head(list)>> \o Insert(x, Tail(list))

RECURSIVE sorted(_)
sorted(list) ==
    IF list = <<>> THEN <<>>
    ELSE Insert(list[Len(list)], sorted(SubSeq(list, 1, Len(list) - 1)))

LangTechList == sorted(Labels("LangTech", 1, <<>>))

CompOptList == sorted(Labels("CompOpt", 1, <<>>))

NLangTech == Len(LangTechList)

NCompOpt == Len(CompOptList)

\* list.index(x), counted from 1
Index(list, x) ==
    CHOOSE i \in 1..Len(list) :
        list[i] = x /\ \A j \in 1..(i - 1) : list[j] # x

Cells == (1..NLangTech) \X (1..NCompOpt)

CellOf(Test) ==
    <<Index(LangTechList, Test.LangTech), Index(CompOptList, Test.CompOpt)>>

(***************************************************************************)
(* State.                                                                  *)
(***************************************************************************)
VARIABLES
    argv,             \* the command-line arguments after the program name
    Ntests, Nx, Ny,   \* passes and array size used by the driver
    pc,               \* where the driver is: "loop", "call", "summary", "csv",
                      \* "done", "exited", "crashed"
    ITest, TIdx,      \* current pass (from 0) and position in FullTests (from 1)
    Test,             \* the descriptor of the current test
    Results,          \* the table of best times, by <<LangTechIndex, CompOptIndex>>
    stage,            \* the next stage of the current BuildAndTimeProgram call
    Nrpt,             \* repeat count local to BuildAndTimeProgram
    Status, Secs, Errors,    \* locals and return value of BuildAndTimeProgram
    LastCommand,      \* its local Command: the last run command it has formed
    BenchKIterSecs, FastestLangTech, FastestCompOpt,
    calls,            \* history: <<pass, position>> of every call made
    logging,          \* whether the history of commands is being kept
    cmdlog,           \* history: the commands executed by the current call
    obtained,         \* history: per cell, the positive KIterSecs of successful calls
    failed,           \* history: some call so far has returned an error Status
    interrupted,      \* history: a command was cut short by a keyboard interrupt
    xcmd, xproc,      \* ExecuteCommand on its own: the command, what the process does
    ret,              \* ExecuteCommand on its own: what it returned
    Lang,             \* ListVersion: the name of the compiler or language
    printed,          \* the lines put out to the terminal, by ListVersion or
                      \* by the driver after the test loop; a line is the
                      \* sequence of the arguments of its print
    nx, ny, ina,      \* the kernels: array size and input array
    out, outv,        \* the kernels: output array of csub.py and of csubnpv.py
    outna,            \* the kernels: output array of csubnpna.py
    called            \* the kernels: which of the subr() have been called

vars == <<argv, Ntests, Nx, Ny, pc, ITest, TIdx, Test, Results, stage, Nrpt,
          Status, Secs, Errors, LastCommand, BenchKIterSecs, FastestLangTech,
          FastestCompOpt, calls, logging, cmdlog, obtained, failed,
          interrupted, xcmd, xproc, ret, Lang, printed, nx, ny, ina, out, outv,
          outna,
          called>>

execVars == <<xcmd, xproc, ret, Lang>>

subrVars == <<nx, ny, ina, out, outv, outna, called>>

driverVars == <<argv, Ntests, Nx, Ny, ITest, TIdx, Test, Results,
                BenchKIterSecs, FastestLangTech, FastestCompOpt, calls,
                logging, obtained, failed, printed, execVars, subrVars>>

\* no ExecuteCommand call of its own is under way
NoExec ==
    /\ xcmd = ""
    /\ xproc = [launch |-> "none"]
    /\ ret = [pc |-> "none"]
    /\ Lang = None

\* no kernel is under test
NoSubr ==
    /\ nx = 0
    /\ ny = 0
    /\ ina = <<>>
    /\ out = <<>>
    /\ outv = <<>>
    /\ outna = <<>>
    /\ called = {}

Argvs ==
    {<<>>} \cup {<<n>> : n \in -1..MaxNtests}
           \cup {<<1, 3>>, <<1, 3, 2>>}

\* the command line has been read; nothing has been run or put out
Started ==
    /\ Ntests = IF Len(argv) > 0 THEN argv[1] ELSE 1
    /\ Nx = IF Len(argv) > 1 THEN argv[2] ELSE 2000
    /\ Ny = IF Len(argv) > 2 THEN argv[3] ELSE 10
    /\ ITest = 0
    /\ TIdx = 1
    /\ BenchKIterSecs = One
    /\ FastestLangTech = ""
    /\ FastestCompOpt = ""
    /\ calls = <<>>
    /\ printed = <<>>
    /\ cmdlog = <<>>
    /\ failed = FALSE
    /\ interrupted = FALSE

\* the state when the test loop is reached
Start ==
    /\ Started
    /\ Test = FullTests[NumTests]
    /\ Results = [c \in Cells |-> Zero]
    /\ obtained = [c \in Cells |-> {}]

\* BuildAndTimeProgram is not being executed
NoCall ==
    /\ stage = "none"
    /\ Nrpt = 0
    /\ Status = None
    /\ Secs = Zero
    /\ Errors = Unassigned
    /\ LastCommand = Unbound

Init ==
    /\ argv \in Argvs
    /\ Start
    /\ logging = FALSE
    /\ pc = "loop"
    /\ NoCall
    /\ NoExec
    /\ NoSubr

(***************************************************************************)
(* BuildAndTimeProgram, one step per external command.                     *)
(***************************************************************************)
AfterRun(T) == IF T.Cleanup # "" THEN "cleanup" ELSE "return"

\* variant: a failed build returns at once, without the cleanup
AfterBuild_SkipCleanup(T, s) == IF s = None THEN "runfull" ELSE "return"

\* variant: the test program is run whatever the build has reported
AfterBuild_AlwaysRun(T, s) == "runfull"

AfterBuild(T, s) == IF s = None THEN "runfull" ELSE AfterRun(T)

AfterBuild1(T, s) ==
    IF s = None /\ T.Build2 # "" THEN "build2" ELSE AfterBuild(T, s)

\* variant: a second build command is executed also without a first one
FirstStage_SecondAlone(T) ==
    IF T.Build1 # "" THEN "build1"
    ELSE IF T.Build2 # "" THEN "build2"
    ELSE AfterBuild(T, None)

FirstStage(T) == IF T.Build1 # "" THEN "build1" ELSE AfterBuild(T, None)

\* variant: the count is used as it is given
ClampNrpt_None(n) == n

\* variant: every count that is very low, below 10, is raised
ClampNrpt_Below10(n) == IF n < 10 THEN 10 ELSE n

ClampNrpt(n) == IF n < 2 THEN 2 ELSE n

\* variant: the two array dimensions are passed in the wrong order
RunCommand_SwapXY(ExecCommand, n, x, y) ==
    ExecCommand \o " " \o ToString(n) \o " " \o ToString(y) \o " " \o ToString(x)

RunCommand(ExecCommand, n, x, y) ==
    ExecCommand \o " " \o ToString(n) \o " " \o ToString(x) \o " " \o ToString(y)

\* elapsed is the time measured around the command, 0 where none is taken
Logged(st, cmd, r, elapsed) ==
    IF logging
    THEN Append(cmdlog, [stage |-> st, cmd |-> cmd, exited |-> r.exited,
                         Status |-> r.Status, Errors |-> r.Errors,
                         elapsed |-> elapsed])
    ELSE cmdlog

\* variant: the interrupt ends the command only, which counts as failed
Exit_SubprocessOnly(st, cmd, r) ==
    /\ Status' = ErrorStatus(cmd)
    /\ stage' = "return"
    /\ cmdlog' = Logged(st, cmd, r, 0)
    /\ UNCHANGED <<pc, Nrpt, Secs, Errors, driverVars>>

\* sys.exit(0) in ExecuteCommand ends the program
Exit(st, cmd, r) ==
    /\ pc' = "exited"
    /\ cmdlog' = Logged(st, cmd, r, 0)
    /\ UNCHANGED <<stage, Nrpt, Status, Secs, Errors, driverVars>>

BeginTest ==
    /\ pc = "loop"
    /\ ITest < Ntests
    /\ pc' = "call"
    /\ calls' = Append(calls, <<ITest, TIdx>>)
    /\ cmdlog' = <<>>
    /\ Status' = None
    /\ Secs' = Zero
    /\ Errors' = Unassigned
    /\ LastCommand' = Unbound
    /\ Test' = FullTests[TIdx]
    /\ Nrpt' = ClampNrpt(Test'.Nrpt)
    /\ stage' = FirstStage(Test')
    /\ UNCHANGED <<argv, Ntests, Nx, Ny, ITest, TIdx, Results, BenchKIterSecs,
                   FastestLangTech, FastestCompOpt, logging, obtained, failed,
                   interrupted, printed, execVars, subrVars>>

Build1 ==
    /\ pc = "call"
    /\ stage = "build1"
    /\ \E proc \in Procs(Test.Build1) :
         LET r == ExecuteCommand(Test.Build1, proc) IN
         /\ interrupted' = (proc.launch = "interrupt")
         /\ UNCHANGED LastCommand
         /\ IF r.exited THEN Exit("build1", Test.Build1, r)
            ELSE /\ Status' = r.Status
                 /\ Errors' = r.Errors
                 /\ stage' = AfterBuild1(Test, r.Status)
                 /\ cmdlog' = Logged("build1", Test.Build1, r, 0)
                 /\ UNCHANGED <<pc, Nrpt, Secs, driverVars>>

Build2 ==
    /\ pc = "call"
    /\ stage = "build2"
    /\ \E proc \in Procs(Test.Build2) :
         LET r == ExecuteCommand(Test.Build2, proc) IN
         /\ interrupted' = (proc.launch = "interrupt")
         /\ UNCHANGED LastCommand
         /\ IF r.exited THEN Exit("build2", Test.Build2, r)
            ELSE /\ Status' = r.Status
                 /\ Errors' = r.Errors
                 /\ stage' = AfterBuild(Test, r.Status)
                 /\ cmdlog' = Logged("build2", Test.Build2, r, 0)
                 /\ UNCHANGED <<pc, Nrpt, Secs, driverVars>>

RunFull ==
    /\ pc = "call"
    /\ stage = "runfull"
    /\ LET Command == RunCommand(Test.Exec, Nrpt, Nx, Ny) IN
       \E proc \in Procs(Command), Elapsed \in 0..MaxTicks :
         LET r == ExecuteCommand(Command, proc) IN
         /\ interrupted' = (proc.launch = "interrupt")
         /\ LastCommand' = Command
         /\ IF r.exited THEN Exit("runfull", Command, r)
            ELSE /\ Status' = r.Status
                 /\ Errors' = r.Errors
                 /\ Secs' = FromInt(Elapsed)
                 /\ stage' = "runbase"
                 /\ cmdlog' = Logged("runfull", Command, r, Elapsed)
                 /\ UNCHANGED <<pc, Nrpt, driverVars>>

\* variant: the corrected time is scaled by n / n instead of n / (n - 1)
OverheadCorrected_DivN(S, Elapsed, n) ==
    RDivInt(RMulInt(RSub(S, FromInt(Elapsed)), n), n)

OverheadCorrected(S, Elapsed, n) ==
    RDivInt(RMulInt(RSub(S, FromInt(Elapsed)), n), n - 1)

RunBase ==
    /\ pc = "call"
    /\ stage = "runbase"
    /\ LET Command == RunCommand(Test.Exec, 1, Nx, Ny) IN
       \E proc \in Procs(Command), Elapsed \in 0..MaxTicks :
         LET r == ExecuteCommand(Command, proc) IN
         /\ interrupted' = (proc.launch = "interrupt")
         /\ LastCommand' = Command
         /\ IF r.exited THEN Exit("runbase", Command, r)
            ELSE /\ Status' = r.Status
                 /\ Errors' = r.Errors
                 /\ Secs' = OverheadCorrected(Secs, Elapsed, Nrpt)
                 /\ stage' = AfterRun(Test)
                 /\ cmdlog' = Logged("runbase", Command, r, Elapsed)
                 /\ UNCHANGED <<pc, Nrpt, driverVars>>

Cleanup ==
    /\ pc = "call"
    /\ stage = "cleanup"
    /\ \E proc \in Procs(Test.Cleanup) :
         LET r == ExecuteCommand(Test.Cleanup, proc) IN
         /\ interrupted' = (proc.launch = "interrupt")
         /\ UNCHANGED LastCommand
         /\ IF r.exited THEN Exit("cleanup", Test.Cleanup, r)
            ELSE /\ Status' = IF Status = None THEN r.Status ELSE Status
                 /\ Errors' = IF Status = None THEN r.Errors ELSE Errors
                 /\ stage' = "return"
                 /\ cmdlog' = Logged("cleanup", Test.Cleanup, r, 0)
                 /\ UNCHANGED <<pc, Nrpt, Secs, driverVars>>

(***************************************************************************)
(* The driver: the body of the test loop after the call, and the search    *)
(* for the fastest cell.                                                   *)
(***************************************************************************)
KIterSecsOf(S, n) == RMulInt(RDivInt(S, n), 1000)

\* variant: the latest positive time replaces the cell, lower or not
Record_Latest(R, cell, K) ==
    IF RPos(K) THEN [R EXCEPT ![cell] = K] ELSE R

Record(R, cell, K) ==
    IF RPos(K)
    THEN IF ~RPos(R[cell]) THEN [R EXCEPT ![cell] = K]
         ELSE IF RLess(K, R[cell]) THEN [R EXCEPT ![cell] = K]
         ELSE R
    ELSE R

\* variant: the last descriptor of the registry is never reached
\* variant: the pass after the current one is left out
NextTest_SkipPass(it, ti) ==
    IF ti < NumTests THEN <<it, ti + 1>> ELSE <<it + 2, 1>>

NextTest_SkipLast(it, ti) ==
    IF ti < NumTests - 1 THEN <<it, ti + 1>> ELSE <<it + 1, 1>>

\* the pass and position after <<it, ti>> in the two nested for loops
NextTest(it, ti) ==
    IF ti < NumTests THEN <<it, ti + 1>> ELSE <<it + 1, 1>>

\* Secs / float(Nrpt) raises ZeroDivisionError, which ends the program
DivisionByZero ==
    /\ pc' = "crashed"
    /\ UNCHANGED <<Results, obtained, stage, Nrpt, Status, Secs, Errors,
                   LastCommand, cmdlog, failed, ITest, TIdx>>

Return ==
    /\ pc = "call"
    /\ stage = "return"
    /\ IF ~Truthy(Status) /\ Test.Nrpt = 0
       THEN DivisionByZero
       ELSE /\ LET K == KIterSecsOf(Secs, Test.Nrpt) IN
               IF Truthy(Status)
               THEN UNCHANGED <<Results, obtained>>
               ELSE /\ Results' = Record(Results, CellOf(Test), K)
                    /\ obtained' =
                          IF RPos(K)
                          THEN [obtained EXCEPT ![CellOf(Test)] = @ \cup {K}]
                          ELSE obtained
            /\ pc' = "loop"
            /\ stage' = "none"
            /\ Nrpt' = 0
            /\ Status' = None
            /\ Secs' = Zero
            /\ Errors' = Unassigned
            /\ LastCommand' = Unbound
            /\ cmdlog' = <<>>
            /\ failed' = (failed \/ Truthy(Status))
            /\ ITest' = NextTest(ITest, TIdx)[1]
            /\ TIdx' = NextTest(ITest, TIdx)[2]
    /\ UNCHANGED <<argv, Ntests, Nx, Ny, Test, BenchKIterSecs,
                   FastestLangTech, FastestCompOpt, calls, logging, printed,
                   interrupted, execVars, subrVars>>

\* the k-th cell (from 0) in the order of the two nested loops
CellAt(k) == <<(k \div NCompOpt) + 1, (k % NCompOpt) + 1>>

\* variant: without the First flag, every cell is compared with the initial 1.0
RECURSIVE Fastest_NoFirst(_, _, _)
Fastest_NoFirst(R, k, acc) ==
    IF k >= NLangTech * NCompOpt THEN acc
    ELSE LET Result == R[CellAt(k)]
             FastestSoFar == RPos(Result) /\ RLess(Result, acc.Bench)
         IN Fastest_NoFirst(R, k + 1,
                IF FastestSoFar
                THEN [First |-> FALSE, Bench |-> Result,
                      LangTech |-> LangTechList[CellAt(k)[1]],
                      CompOpt |-> CompOptList[CellAt(k)[2]]]
                ELSE acc)

RECURSIVE Fastest(_, _, _)
Fastest(R, k, acc) ==
    IF k >= NLangTech * NCompOpt THEN acc
    ELSE LET Result == R[CellAt(k)]
             FastestSoFar ==
                 /\ RPos(Result)
                 /\ (acc.First \/ RLess(Result, acc.Bench))
         IN Fastest(R, k + 1,
                IF FastestSoFar
                THEN [First |-> FALSE, Bench |-> Result,
                      LangTech |-> LangTechList[CellAt(k)[1]],
                      CompOpt |-> CompOptList[CellAt(k)[2]]]
                ELSE acc)

FindFastest ==
    /\ pc = "loop"
    /\ ITest >= Ntests
    /\ LET f == Fastest(Results, 0,
                    [First |-> TRUE, Bench |-> One, LangTech |-> "",
                     CompOpt |-> ""])
       IN /\ BenchKIterSecs' = f.Bench
          /\ FastestLangTech' = f.LangTech
          /\ FastestCompOpt' = f.CompOpt
          /\ printed' = Append(printed, <<"Fastest combination is ",
                                          f.LangTech, "and", f.CompOpt>>)
    /\ pc' = "summary"
    /\ UNCHANGED <<argv, Ntests, Nx, Ny, ITest, TIdx, Test, Results, stage,
                   Nrpt, Status, Secs, Errors, LastCommand, calls, logging,
                   cmdlog, obtained,
                   failed, interrupted, execVars, subrVars>>

\* the characters of a string of the program
Chars(s) ==
    CASE s = "Compiler" ->
           <<"C", "o", "m", "p", "i", "l", "e", "r">>
      [] s = "C : raw" ->
           <<"C", " ", ":", " ", "r", "a", "w">>
      [] s = "R : ref class" ->
           <<"R", " ", ":", " ", "r", "e", "f", " ", "c", "l", "a", "s", "s">>
      [] s = "Swift" ->
           <<"S", "w", "i", "f", "t">>
      [] s = "clang" ->
           <<"c", "l", "a", "n", "g">>
      [] s = "Rscript" ->
           <<"R", "s", "c", "r", "i", "p", "t">>
      [] s = "Swiftc" ->
           <<"S", "w", "i", "f", "t", "c">>

DigitChars == <<"0", "1", "2", "3", "4", "5", "6", "7", "8", "9">>

\* "%d" % n, for n >= 0
RECURSIVE Decimal(_)
Decimal(n) ==
    IF n < 10 THEN <<DigitChars[n + 1]>>
    ELSE Append(Decimal(n \div 10), DigitChars[(n % 10) + 1])

\* r * 100 rounded to the nearest whole number, a tie to the even one
Hundredths(r) ==
    LET n == r[1] * 100
        q == n \div r[2]
        m == n % r[2]
    IN IF 2 * m < r[2] THEN q
       ELSE IF 2 * m > r[2] THEN q + 1
       ELSE IF q % 2 = 0 THEN q
       ELSE q + 1

\* "%.2f" % r, for r >= 0
Format2f(r) ==
    LET h == Hundredths(r)
    IN Decimal(h \div 100)
       \o <<".", DigitChars[((h % 100) \div 10) + 1], DigitChars[(h % 10) + 1]>>

\* the lines of the summary of relative speeds, from descriptor k on
RECURSIVE SummaryLines(_, _, _)
SummaryLines(R, B, k) ==
    IF k > NumTests THEN <<>>
    ELSE LET KIterSecs == R[CellOf(FullTests[k])]
             RelativeSpeed == RDiv(KIterSecs, B)
         IN << <<"%24s %20s 1K Iter: %10.2g, Relative time %12.2f",
                 FullTests[k].LangTech, FullTests[k].CompOpt, KIterSecs,
                 RelativeSpeed>> >>
            \o SummaryLines(R, B, k + 1)

PrintSummary ==
    /\ pc = "summary"
    /\ printed' = printed
                   \o << <<"">>, <<"Summary of relative speeds:">>, <<"">> >>
                   \o SummaryLines(Results, BenchKIterSecs, 1)
    /\ pc' = "csv"
    /\ UNCHANGED <<argv, Ntests, Nx, Ny, ITest, TIdx, Test, Results, stage,
                   Nrpt, Status, Secs, Errors, LastCommand, BenchKIterSecs,
                   FastestLangTech,
                   FastestCompOpt, calls, logging, cmdlog, obtained, failed,
                   interrupted, execVars, subrVars>>

\* the header line of the matrix, from language/technique label k on
RECURSIVE Header(_, _)
Header(k, Line) ==
    IF k > NLangTech THEN Line
    ELSE Header(k + 1, Line \o <<",">> \o Chars(LangTechList[k]))

\* variant: a cell without a time is written as a number too
RECURSIVE Row_ZeroWritten(_, _, _, _, _)
Row_ZeroWritten(R, B, CompOptIndex, k, Line) ==
    IF k > NLangTech THEN Line
    ELSE LET Result == RDiv(R[<<k, CompOptIndex>>], B)
         IN Row_ZeroWritten(R, B, CompOptIndex, k + 1,
                Line \o <<",">> \o Format2f(Result))

\* a data line of the matrix, from language/technique index k on
RECURSIVE Row(_, _, _, _, _)
Row(R, B, CompOptIndex, k, Line) ==
    IF k > NLangTech THEN Line
    ELSE LET Result == RDiv(R[<<k, CompOptIndex>>], B)
             ResultString == IF RPos(Result) THEN Format2f(Result) ELSE <<>>
         IN Row(R, B, CompOptIndex, k + 1, Line \o <<",">> \o ResultString)

\* the data lines of the matrix, from compiler/option label j on
RECURSIVE Rows(_, _, _)
Rows(R, B, j) ==
    IF j > NCompOpt THEN <<>>
    ELSE LET CompOpt == CompOptList[j]
             CompOptIndex == Index(CompOptList, CompOpt)
         IN << <<Row(R, B, CompOptIndex, 1, Chars(CompOpt))>> >>
            \o Rows(R, B, j + 1)

PrintCSV ==
    /\ pc = "csv"
    /\ printed' = printed
                   \o << <<"">>, <<Header(1, Chars("Compiler"))>> >>
                   \o Rows(Results, BenchKIterSecs, 1)
    /\ pc' = "done"
    /\ UNCHANGED <<argv, Ntests, Nx, Ny, ITest, TIdx, Test, Results, stage,
                   Nrpt, Status, Secs, Errors, LastCommand, BenchKIterSecs,
                   FastestLangTech,
                   FastestCompOpt, calls, logging, cmdlog, obtained, failed,
                   interrupted, execVars, subrVars>>

Next ==
    \/ BeginTest
    \/ Build1
    \/ Build2
    \/ RunFull
    \/ RunBase
    \/ Cleanup
    \/ Return
    \/ FindFastest
    \/ PrintSummary
    \/ PrintCSV

Spec == Init /\ [][Next]_vars

\* the program has ended: after the matrix, by sys.exit() or by an exception
Halted == pc \in {"done", "exited", "crashed"}

\* where the program is
position == <<pc, stage>>

\* The program moves on.  A step of Next is taken only when the program has
\* not ended and changes position, and a program that has not ended has a
\* step of Next to take; so on the behaviours of Spec this is any step of
\* Next, and it is enabled exactly when Next is.
Advance ==
    /\ ~Halted
    /\ pc' \in {"loop", "call", "summary", "csv", "done", "exited", "crashed"}
    /\ stage' \in {"none", "build1", "build2", "runfull", "runbase",
                   "cleanup", "return"}
    /\ position' # position

\* The program is sequential: as long as it has not ended it takes its next
\* step, and a command that has been launched ends, in one of the ways of
\* Procs.
SpecFair == Spec /\ WF_position(Advance)

(***************************************************************************)
(* One call of BuildAndTimeProgram and what the driver does with what it   *)
(* returns: the arguments are those of a descriptor of the registry, or of *)
(* one with another repeat count or without its first build command, and   *)
(* the array size is the default or one given on the command line.         *)
(***************************************************************************)
CallTests ==
    UNION {{[FullTests[i] EXCEPT !.Nrpt = n, !.Build1 = b] :
               n \in {FullTests[i].Nrpt, 2, 1, 0, -1},
               b \in {FullTests[i].Build1, ""}} : i \in 1..NumTests}

\* the table before the call: empty, or with a time in the cell of the test
\* from an earlier pass
PriorResults(T) ==
    {[c \in Cells |-> Zero],
     [c \in Cells |-> IF c = CellOf(T) THEN One ELSE Zero]}

InitCall ==
    /\ argv \in {<<>>, <<1, 3, 2>>}
    /\ Started
    /\ logging = TRUE
    /\ pc = "call"
    /\ \E T \in CallTests :
          /\ Test = T
          /\ Nrpt = ClampNrpt(T.Nrpt)
          /\ stage = FirstStage(T)
          /\ Results \in PriorResults(T)
    /\ obtained = [c \in Cells |->
                       IF RPos(Results[c]) THEN {Results[c]} ELSE {}]
    /\ Status = None
    /\ Secs = Zero
    /\ Errors = Unassigned
    /\ LastCommand = Unbound
    /\ NoExec
    /\ NoSubr

NextCall ==
    \/ Build1
    \/ Build2
    \/ RunFull
    \/ RunBase
    \/ Cleanup
    \/ Return

SpecCall == InitCall /\ [][NextCall]_vars

(***************************************************************************)
(* One call of ExecuteCommand, on a command of the registry.               *)
(***************************************************************************)
RegistryCommands ==
    UNION {{FullTests[i].Build1, FullTests[i].Build2, FullTests[i].Cleanup,
            RunCommand(FullTests[i].Exec, FullTests[i].Nrpt, 2000, 10),
            RunCommand(FullTests[i].Exec, 1, 2000, 10)} : i \in 1..NumTests}
    \ {""}

\* the driver is not running
NoDriver ==
    /\ argv = <<>>
    /\ Start
    /\ logging = FALSE
    /\ pc = "none"
    /\ NoCall

InitExec ==
    /\ NoDriver
    /\ NoSubr
    /\ xcmd \in RegistryCommands
    /\ xproc \in Procs(xcmd)
    /\ ret = [pc |-> "called"]
    /\ Lang = None

Execute ==
    /\ ret.pc = "called"
    /\ LET r == ExecuteCommand(xcmd, xproc) IN
       ret' = [pc |-> IF r.exited THEN "exited" ELSE "returned",
               Status |-> r.Status, Output |-> r.Output, Errors |-> r.Errors]
    /\ UNCHANGED <<argv, Ntests, Nx, Ny, pc, ITest, TIdx, Test, Results, stage,
                   Nrpt, Status, Secs, Errors, LastCommand, BenchKIterSecs,
                   FastestLangTech,
                   FastestCompOpt, calls, logging, cmdlog, obtained, failed,
                   xcmd, xproc, Lang, printed, subrVars>>
    /\ interrupted' = (xproc.launch = "interrupt")

NextExec == Execute

SpecExec == InitExec /\ [][NextExec]_vars

(***************************************************************************)
(* One call of ListVersion.  What the version command writes is a text, a  *)
(* sequence of characters, so that its lines are those split() finds.      *)
(***************************************************************************)
\* some of the calls of ListVersion made by the main program
VersionQueries ==
    {[Lang |-> "Clang    ", Command |-> "c++ --version"],
     [Lang |-> "Java     ", Command |-> "java -version"]}

Texts == UNION {[1..n -> {"v", "\n"}] : n \in 0..MaxText}

\* as Procs, for a command that writes any text to either stream; nothing
\* written is valid UTF-8
VersionProcs ==
    [launch : {"oserror", "interrupt"},
     out : {<<>>}, outValid : {TRUE}, err : {<<>>}, errValid : {TRUE},
     exit : {0}]
    \cup
    {p \in [launch : {"ok"},
            out : Texts, outValid : BOOLEAN, err : Texts, errValid : BOOLEAN,
            exit : ExitCodes] :
        /\ (p.out = <<>> => p.outValid)
        /\ (p.err = <<>> => p.errValid)}

\* s.split(sep) from character i on; the last piece of acc is being read
RECURSIVE splitFrom(_, _, _, _)
splitFrom(s, sep, i, acc) ==
    IF i > Len(s) THEN acc
    ELSE IF s[i] = sep THEN splitFrom(s, sep, i + 1, Append(acc, <<>>))
    ELSE splitFrom(s, sep, i + 1,
                   [acc EXCEPT ![Len(acc)] = Append(@, s[i])])

split(s, sep) == splitFrom(s, sep, 1, << <<>> >>)

\* the print of the first line of one stream, if there is one
FirstLinePrint(L, Lines) ==
    IF Len(Lines) > 0
    THEN IF Lines[1] # <<>> THEN << <<L, ":", Lines[1]>> >> ELSE <<>>
    ELSE <<>>

\* the lines ListVersion prints for what ExecuteCommand returned
VersionLines(L, r) ==
    IF Truthy(r.Status)
    THEN << <<"Unable to get version for", L, ":", r.Status>> >>
    ELSE LET OutputLines == split(Text(r.Output), "\n")
             ErrorLines == split(Text(r.Errors), "\n")
         IN FirstLinePrint(L, OutputLines) \o FirstLinePrint(L, ErrorLines)

InitList ==
    /\ NoDriver
    /\ NoSubr
    /\ \E q \in VersionQueries :
          /\ Lang = q.Lang
          /\ xcmd = q.Command
    /\ xproc \in VersionProcs
    /\ ret = [pc |-> "called"]

ListVersion ==
    /\ ret.pc = "called"
    /\ LET r == ExecuteCommand(xcmd, xproc) IN
       IF r.exited
       THEN /\ ret' = [pc |-> "exited"]
            /\ printed' = printed
       ELSE /\ ret' = [pc |-> "returned", Status |-> r.Status]
            /\ printed' = printed \o VersionLines(Lang, r)
    /\ UNCHANGED <<argv, Ntests, Nx, Ny, pc, ITest, TIdx, Test, Results, stage,
                   Nrpt, Status, Secs, Errors, LastCommand, BenchKIterSecs,
                   FastestLangTech,
                   FastestCompOpt, calls, logging, cmdlog, obtained, failed,
                   xcmd, xproc, Lang, subrVars>>
    /\ interrupted' = (xproc.launch = "interrupt")

NextList == ListVersion

SpecList == InitList /\ [][NextList]_vars

(***************************************************************************)
(* The kernels.  Arrays are functions on <<iy, ix>>; their elements are    *)
(* floats with MantBits bits of mantissa, here whole numbers, and every    *)
(* addition rounds to the nearest float, ties to the even mantissa.        *)
(***************************************************************************)
RECURSIVE Pow2(_)
Pow2(n) == IF n = 0 THEN 1 ELSE 2 * Pow2(n - 1)

\* the spacing of the floats around the magnitude m
RECURSIVE Ulp(_, _)
Ulp(m, u) == IF m < Pow2(MantBits) * u THEN u ELSE Ulp(m, 2 * u)

FRound(x) ==
    LET m == Abs(x)
        u == Ulp(m, 1)
        q == m \div u
        r == m % u
        n == IF 2 * r < u THEN q * u
             ELSE IF 2 * r > u THEN (q + 1) * u
             ELSE IF q % 2 = 0 THEN q * u
             ELSE (q + 1) * u
    IN IF x < 0 THEN -n ELSE n

\* float + int and float + float
FAdd(a, b) == FRound(a + FRound(b))

Idx(x, y) == (0..(y - 1)) \X (0..(x - 1))

\* variant: the inner loop stops one column early
RECURSIVE subrLoop_ShortRow(_, _, _, _, _, _)
subrLoop_ShortRow(a, x, y, o, iy, ix) ==
    IF iy >= y THEN o
    ELSE IF ix >= x - 1 THEN subrLoop_ShortRow(a, x, y, o, iy + 1, 0)
    ELSE subrLoop_ShortRow(a, x, y,
             [o EXCEPT ![<<iy, ix>>] = FAdd(FAdd(a[<<iy, ix>>], ix), iy)],
             iy, ix + 1)

\* the two nested loops of csub.py, from row iy and column ix on
RECURSIVE subrLoop(_, _, _, _, _, _)
subrLoop(a, x, y, o, iy, ix) ==
    IF iy >= y THEN o
    ELSE IF ix >= x THEN subrLoop(a, x, y, o, iy + 1, 0)
    ELSE subrLoop(a, x, y,
             [o EXCEPT ![<<iy, ix>>] = FAdd(FAdd(a[<<iy, ix>>], ix), iy)],
             iy, ix + 1)

\* subr of csub.py
subr(a, x, y, o) == subrLoop(a, x, y, o, 0, 0)

arange(n) == [i \in 0..(n - 1) |-> i]

\* incr + ones, with ones the 0-dimensional array holding 1
AddOnes(incr) == [i \in DOMAIN incr |-> incr[i] + 1]

\* the loop over the rows of csubnpv.py (nx > ny)
RECURSIVE rowLoop(_, _, _, _, _, _)
rowLoop(a, x, y, o, incr, iy) ==
    IF iy >= y THEN o
    ELSE rowLoop(a, x, y,
             [c \in DOMAIN o |->
                 IF c[1] = iy /\ c[2] < x THEN FAdd(a[c], incr[c[2]]) ELSE o[c]],
             AddOnes(incr), iy + 1)

\* the loop over the columns of csubnpv.py (ny >= nx)
RECURSIVE colLoop(_, _, _, _, _, _)
colLoop(a, x, y, o, incr, ix) ==
    IF ix >= x THEN o
    ELSE colLoop(a, x, y,
             [c \in DOMAIN o |->
                 IF c[2] = ix /\ c[1] < y THEN FAdd(a[c], incr[c[1]]) ELSE o[c]],
             AddOnes(incr), ix + 1)

\* subr of csubnpv.py
subrv(a, x, y, o) ==
    IF x > y THEN rowLoop(a, x, y, o, arange(x), 0)
    ELSE colLoop(a, x, y, o, arange(y), 0)

\* a + v[newaxis, :], v broadcast along the rows
AddRow(a, v) == [c \in DOMAIN a |-> FAdd(a[c], v[c[2]])]

\* a + v[:, newaxis], v broadcast along the columns
AddCol(a, v) == [c \in DOMAIN a |-> FAdd(a[c], v[c[1]])]

\* variant: the two index vectors are added to each other first
subrna_SumFirst(a, x, y, o) ==
    [c \in DOMAIN o |-> FAdd(a[c], arange(x)[c[2]] + arange(y)[c[1]])]

\* subr of csubnpna.py: the expression is evaluated from left to right and
\* out[:] takes the whole of its value
subrna(a, x, y, o) ==
    [c \in DOMAIN o |-> AddCol(AddRow(a, arange(x)), arange(y))[c]]

\* values of the input array: small ones, and the first float whose
\* neighbours are 2 apart
Vals == {0, 1, Pow2(MantBits)}

\* what the output array holds before the call
Fills == {0, -1}

InitSubr ==
    /\ NoDriver
    /\ NoExec
    /\ nx \in 0..MaxDim
    /\ ny \in 0..MaxDim
    /\ ina \in [Idx(nx, ny) -> Vals]
    /\ \E f \in Fills : out = [c \in Idx(nx, ny) |-> f]
    /\ outv = out
    /\ outna = out
    /\ called = {}

CallSubr ==
    /\ "csub" \notin called
    /\ out' = subr(ina, nx, ny, out)
    /\ called' = called \cup {"csub"}
    /\ UNCHANGED <<argv, Ntests, Nx, Ny, pc, ITest, TIdx, Test, Results, stage,
                   Nrpt, Status, Secs, Errors, LastCommand, BenchKIterSecs,
                   FastestLangTech,
                   FastestCompOpt, calls, logging, cmdlog, obtained, failed,
                   interrupted, printed, execVars, nx, ny, ina, outv, outna>>

CallSubrV ==
    /\ "csubnpv" \notin called
    /\ outv' = subrv(ina, nx, ny, outv)
    /\ called' = called \cup {"csubnpv"}
    /\ UNCHANGED <<argv, Ntests, Nx, Ny, pc, ITest, TIdx, Test, Results, stage,
                   Nrpt, Status, Secs, Errors, LastCommand, BenchKIterSecs,
                   FastestLangTech,
                   FastestCompOpt, calls, logging, cmdlog, obtained, failed,
                   interrupted, printed, execVars, nx, ny, ina, out, outna>>

NextSubr ==
    \/ CallSubr
    \/ CallSubrV

SpecSubr == InitSubr /\ [][NextSubr]_vars

CallSubrNA ==
    /\ "csubnpna" \notin called
    /\ outna' = subrna(ina, nx, ny, outna)
    /\ called' = called \cup {"csubnpna"}
    /\ UNCHANGED <<argv, Ntests, Nx, Ny, pc, ITest, TIdx, Test, Results, stage,
                   Nrpt, Status, Secs, Errors, LastCommand, BenchKIterSecs,
                   FastestLangTech,
                   FastestCompOpt, calls, logging, cmdlog, obtained, failed,
                   interrupted, printed, execVars, nx, ny, ina, out, outv>>

NextSubrNA ==
    \/ CallSubr
    \/ CallSubrNA

SpecSubrNA == InitSubr /\ [][NextSubrNA]_vars

TypeOK ==
    /\ pc \in {"none", "loop", "call", "summary", "csv", "done", "exited",
              "crashed"}
    /\ stage \in {"none", "build1", "build2", "runfull", "runbase",
                  "cleanup", "return"}
    /\ TIdx \in 1..NumTests

(***************************************************************************)
(* Properties of the driver and of BuildAndTimeProgram.                    *)
(***************************************************************************)
\* the current BuildAndTimeProgram call has reached its return statement
Returning == pc = "call" /\ stage = "return"

\* the driver is past the test loop and the search for the fastest cell
Searched == pc \in {"summary", "csv", "done"}

BuildStages == {"build1", "build2"}

RunStages == {"runfull", "runbase"}

\* positions in the log of the current call of the commands of the given stages
Entries(stages) == {i \in DOMAIN cmdlog : cmdlog[i].stage \in stages}

\* the build and run commands of the current call that failed
Failures ==
    {i \in Entries(BuildStages \cup RunStages) : cmdlog[i].Status # None}

\* C1: every cell of Results is the lowest strictly positive KIterSecs that a
\* successful call for its (language, compiler) pair has produced so far,
\* and 0 when there is none.
C1_ResultsLowest ==
    \A c \in Cells :
        IF obtained[c] = {} THEN Results[c] = Zero
        ELSE /\ Results[c] \in obtained[c]
             /\ \A k \in obtained[c] : ~RLess(k, Results[c])

\* a second pass has brought a cell a second, different time
C1_Witness ==
    /\ pc = "loop"
    /\ ITest = 2
    /\ \E c \in Cells : Cardinality(obtained[c]) = 2

\* C2: when a build or run stage fails, no later build or run stage is
\* executed, and the Status and Errors returned are those of that stage.
C2_StopAtFailingStage ==
    Returning =>
        \A i \in Failures :
            /\ \A j \in Entries(BuildStages \cup RunStages) : j <= i
            /\ Status = cmdlog[i].Status
            /\ Errors = cmdlog[i].Errors

\* C3: a call with a cleanup command executes it exactly once, as the last
\* command of the call, whether or not an earlier stage failed.
C3_CleanupOnceLast ==
    /\ Cardinality(Entries({"cleanup"})) <= 1
    /\ \A i \in Entries({"cleanup"}) : i = Len(cmdlog)
    /\ (Returning /\ Test.Cleanup # "") =>
           /\ Entries({"cleanup"}) = {Len(cmdlog)}
           /\ cmdlog[Len(cmdlog)].cmd = Test.Cleanup

\* a call whose first build command failed returns after its cleanup
C3_Witness ==
    /\ Returning
    /\ Test.Cleanup # ""
    /\ cmdlog[1].stage = "build1"
    /\ cmdlog[1].Status # None
    /\ cmdlog[Len(cmdlog)].stage = "cleanup"

\* the repeat count of the full run: that of the descriptor, 2 at least
FullCount == IF Test.Nrpt < 2 THEN 2 ELSE Test.Nrpt

C6_OverheadFormula ==
    (pc = "call" /\ stage \in {"cleanup", "return"}) =>
        \A i, j \in DOMAIN cmdlog :
            (cmdlog[i].stage = "runfull" /\ cmdlog[j].stage = "runbase") =>
                Secs = Norm((cmdlog[i].elapsed - cmdlog[j].elapsed) * FullCount,
                            FullCount - 1)

\* both runs were timed, the full run longer than the baseline run
C6_Witness ==
    /\ Returning
    /\ \E i, j \in DOMAIN cmdlog :
          /\ cmdlog[i].stage = "runfull"
          /\ cmdlog[j].stage = "runbase"
          /\ cmdlog[j].elapsed > 0
          /\ cmdlog[i].elapsed > cmdlog[j].elapsed
    /\ Secs[2] > 1
    /\ Test.Nrpt > 2

\* the cells of Results that hold a time
Positives == {c \in Cells : RPos(Results[c])}

BenchIsSmallestPositive ==
    /\ \E c \in Positives :
          /\ Results[c] = BenchKIterSecs
          /\ LangTechList[c[1]] = FastestLangTech
          /\ CompOptList[c[2]] = FastestCompOpt
    /\ \A c \in Positives : ~RLess(Results[c], BenchKIterSecs)

\* C7 as stated: after the test loop BenchKIterSecs is the smallest strictly
\* positive entry of Results and the Fastest labels name a cell holding it.
C7_Original == Searched => BenchIsSmallestPositive

\* C7 as amended: that holds when Results has a strictly positive entry;
\* when it has none, BenchKIterSecs is 1.0 and both labels are empty.
C7_BenchSmallestOrDefault ==
    Searched =>
        IF Positives # {} THEN BenchIsSmallestPositive
        ELSE /\ BenchKIterSecs = One
             /\ FastestLangTech = ""
             /\ FastestCompOpt = ""

\* several cells hold a time, all above 1.0, and the fastest is not the first
C7_Witness ==
    /\ Searched
    /\ Cardinality(Positives) >= 2
    /\ RLess(One, BenchKIterSecs)
    /\ \E c \in Positives : RLess(BenchKIterSecs, Results[c]) /\ c[1] < 3
    /\ FastestLangTech = "Swift"

\* the number of passes the loop makes
Passes == IF Ntests > 0 THEN Ntests ELSE 0

\* C8: BuildAndTimeProgram is called once per descriptor and pass, in
\* registry order, pass after pass, whatever the calls report; when the loop
\* is over, Ntests * NumTests calls have been made (none when Ntests <= 0).
C8_CallsInOrder ==
    /\ \A i \in DOMAIN calls :
          calls[i] = <<(i - 1) \div NumTests, ((i - 1) % NumTests) + 1>>
    /\ Len(calls) <= Passes * NumTests
    /\ Searched => Len(calls) = Passes * NumTests

\* two full passes were made although some call reported an error
C8_Witness ==
    /\ Searched
    /\ Ntests = 2
    /\ failed
    /\ Len(calls) = 2 * NumTests

\* C14: the cleanup command changes the Status and Errors that the call
\* returns only if every earlier stage succeeded: after a failed build or
\* run they are left as they were, otherwise they become those of the
\* cleanup command.
C14_CleanupReported ==
    [][(pc = "call" /\ stage = "cleanup" /\ pc' = "call")
          => IF Failures # {}
             THEN Status' = Status /\ Errors' = Errors
             ELSE /\ Status' = cmdlog'[Len(cmdlog')].Status
                  /\ Errors' = cmdlog'[Len(cmdlog')].Errors]_vars

\* what the code does: the cleanup is reported unless the last build or run
\* command failed
CleanupReportedUnlessLastFailed ==
    [][(pc = "call" /\ stage = "cleanup" /\ pc' = "call")
          => IF Status # None
             THEN Status' = Status /\ Errors' = Errors
             ELSE /\ Status' = cmdlog'[Len(cmdlog')].Status
                  /\ Errors' = cmdlog'[Len(cmdlog')].Errors]_vars

\* C16: every descriptor of FullTests has a repeat count above one, so during
\* every call of the driver the repeat count BuildAndTimeProgram uses for the
\* full run and the overhead correction is the count of the descriptor, by
\* which the driver divides Secs.
C16_SameRepeatCount ==
    /\ \A k \in 1..NumTests : FullTests[k].Nrpt > 1
    /\ pc = "call" =>
          /\ Nrpt = Test.Nrpt
          /\ \E k \in 1..NumTests : Test = FullTests[k]

\* the descriptor with the lowest repeat count has been timed
C16_Witness ==
    /\ Returning
    /\ Test.Nrpt = 3
    /\ Status = None
    /\ Secs = <<3, 2>>

\* the array dimension at position i of the command line, d when not given
Dimension(i, d) == IF Len(argv) >= i THEN argv[i] ELSE d

\* C17: every run command formed by the harness, for every descriptor and in
\* every pass, ends with the same array dimensions: those of the command
\* line when given, otherwise 2000 columns and 10 rows; the number of passes
\* is that of the command line, otherwise 1.
C17_SameDimensions ==
    /\ Ntests = (IF Len(argv) >= 1 THEN argv[1] ELSE 1)
    /\ LastCommand # Unbound =>
          \E n \in {Test.Nrpt, 1} :
              LastCommand = Test.Exec \o " " \o ToString(n)
                              \o " " \o ToString(Dimension(2, 2000))
                              \o " " \o ToString(Dimension(3, 10))

\* the last descriptor is run in a second pass, still with the default
\* dimensions
C17_Witness ==
    /\ pc = "call"
    /\ ITest = 1
    /\ argv = <<2>>
    /\ LastCommand = "./cmain 1 2000 10"

\* the build commands of the current call that failed
BuildFailures == Failures \cap Entries(BuildStages)

\* C18: in a call whose first build command fails, or whose second fails
\* after the first succeeded, the test program is never executed, Secs
\* stays 0.0, the Status returned is the error of that build command, and
\* the driver leaves the Results table as it was.
C18_BuildFailure ==
    /\ []((pc = "call" /\ BuildFailures # {}) =>
             /\ Entries(RunStages) = {}
             /\ LastCommand = Unbound
             /\ Secs = Zero)
    /\ [](Returning =>
             \A i \in BuildFailures :
                 /\ \A j \in 1..(i - 1) : cmdlog[j].Status = None
                 /\ cmdlog[i].cmd = IF i = 1 THEN Test.Build1 ELSE Test.Build2
                 /\ Status = "Error executing '" \o cmdlog[i].cmd \o "'")
    /\ [][(Returning /\ BuildFailures # {}) => Results' = Results]_vars

\* the second build command failed, the cleanup has been done, and the
\* table holds a time for the test from an earlier pass
C18_Witness ==
    /\ Returning
    /\ BuildFailures = {2}
    /\ cmdlog[3].stage = "cleanup"
    /\ cmdlog[3].Status # None
    /\ RPos(Results[CellOf(Test)])

\* C19: BuildAndTimeProgram uses 2 for any repeat count below 2: the full
\* run is executed with at least two repeats, and Nrpt - 1, by which the
\* overhead correction divides, is never zero.
C19_AtLeastTwoRepeats ==
    pc = "call" =>
        /\ Nrpt >= 2
        /\ Nrpt - 1 # 0
        /\ Test.Nrpt < 2 => Nrpt = 2
        /\ Test.Nrpt >= 2 => Nrpt = Test.Nrpt
        /\ \A i \in Entries({"runfull"}) :
              cmdlog[i].cmd = Test.Exec \o " " \o ToString(Nrpt)
                                \o " " \o ToString(Nx) \o " " \o ToString(Ny)

\* a call with the repeat count 0 has run the program with 2 repeats and
\* corrected the time by 2 / (2 - 1)
C19_Witness ==
    /\ Returning
    /\ Test.Nrpt = 0
    /\ Status = None
    /\ cmdlog[1].cmd = "Rscript csubref.r 2 2000 10"
    /\ cmdlog[1].elapsed = 2
    /\ cmdlog[2].elapsed = 1
    /\ Secs = <<2, 1>>

\* C20: the second build command is executed only after a first build
\* command that is not empty and has succeeded; a call with an empty first
\* and a non-empty second build command executes no build command and goes
\* on to run the test program.
C20_SecondBuildOnlyAfterFirst ==
    /\ \A i \in Entries({"build2"}) :
          /\ Test.Build1 # ""
          /\ i = 2
          /\ cmdlog[1].stage = "build1"
          /\ cmdlog[1].cmd = Test.Build1
          /\ cmdlog[1].Status = None
          /\ cmdlog[2].cmd = Test.Build2
    /\ (pc = "call" /\ Test.Build1 = "" /\ Test.Build2 # "") =>
          /\ stage \notin BuildStages
          /\ Entries(BuildStages) = {}
          /\ cmdlog # <<>> => cmdlog[1].stage = "runfull"
          /\ Returning => Cardinality(Entries(RunStages)) = 2

\* a call without its first build command has run the program, the second
\* build command never executed
C20_Witness ==
    /\ Returning
    /\ Test.Build1 = ""
    /\ Test.Build2 = "c++ -o cmain cmain.cpp csub.o"
    /\ Status = None
    /\ Cardinality(Entries(RunStages)) = 2
    /\ Entries(BuildStages) = {}

\* C15: after a keyboard interrupt during a command the harness takes no
\* further step: no build, run or cleanup command, no call, no output; it
\* has ended without a summary.
C15_InterruptTerminates ==
    /\ [](interrupted => (pc = "exited" /\ printed = <<>>))
    /\ [][~interrupted]_vars

\* the cleanup command of a later call was interrupted, after a pass with
\* a recorded time
C15_Witness ==
    /\ interrupted
    /\ pc = "exited"
    /\ stage = "cleanup"
    /\ ITest = 1
    /\ Positives # {}

(***************************************************************************)
(* Termination and the order of the output after the test loop.            *)
(***************************************************************************)
\* the test loop is over: every test of every pass has been called and has
\* returned
LoopOver ==
    /\ Len(calls) = Passes * NumTests
    /\ stage = "none"
    /\ pc \notin {"call", "exited", "crashed"}

IsFastestLine(l) == Len(l) = 4 /\ l[1] = "Fastest combination is "

IsSummaryLine(l) ==
    /\ Len(l) = 5
    /\ l[1] = "%24s %20s 1K Iter: %10.2g, Relative time %12.2f"

\* lines 2 .. SummaryEnd are the summary: a title between two empty lines,
\* then one line per descriptor, in registry order
SummaryEnd == 4 + NumTests

IsSummary(p) ==
    /\ p[2] = <<"">>
    /\ p[3] = <<"Summary of relative speeds:">>
    /\ p[4] = <<"">>
    /\ \A k \in 1..NumTests :
          /\ IsSummaryLine(p[4 + k])
          /\ p[4 + k][2] = FullTests[k].LangTech
          /\ p[4 + k][3] = FullTests[k].CompOpt

\* the lines after the summary are the matrix: an empty line, the header,
\* one line per compiler/option label
MatrixEnd == SummaryEnd + 2 + NCompOpt

IsMatrix(p) ==
    /\ p[SummaryEnd + 1] = <<"">>
    /\ \A j \in (SummaryEnd + 2)..MatrixEnd :
          /\ Len(p[j]) = 1
          /\ Len(split(p[j][1], ",")) = NLangTech + 1
    /\ split(p[SummaryEnd + 2][1], ",")[1] = Chars("Compiler")

\* what has been put out is, in this order, the fastest combination, then
\* the summary, then the matrix, each whole, and nothing else
OutputInOrder ==
    \/ printed = <<>> /\ pc \in {"loop", "call", "exited", "crashed"}
    \/ /\ pc = "summary"
       /\ Len(printed) = 1
       /\ IsFastestLine(printed[1])
    \/ /\ pc = "csv"
       /\ Len(printed) = SummaryEnd
       /\ IsFastestLine(printed[1])
       /\ IsSummary(printed)
    \/ /\ pc = "done"
       /\ Len(printed) = MatrixEnd
       /\ IsFastestLine(printed[1])
       /\ IsSummary(printed)
       /\ IsMatrix(printed)

\* C21: when every command that is launched ends and the program takes its
\* steps (SpecFair), then for every Ntests of the command line, unless a
\* command is cut short by a keyboard interrupt, the harness reaches its end
\* with all Ntests * NumTests calls made, and takes no step from there (it
\* has terminated); the fastest combination, the
\* summary and the matrix are put out in this order, and nothing of them
\* before the last test of the last pass has returned.
C21_TerminatesWithOutput ==
    /\ [](OutputInOrder /\ (printed # <<>> => LoopOver))
    /\ <>(interrupted \/ (pc = "done" /\ LoopOver))
    /\ [][pc # "done"]_vars

\* the end is reached after the largest number of passes, with a failed
\* call on the way and a time in the table
C21_Witness ==
    /\ pc = "done"
    /\ ~interrupted
    /\ Ntests = MaxNtests
    /\ Len(calls) = MaxNtests * NumTests
    /\ failed
    /\ Positives # {}
    /\ Len(printed) = MatrixEnd

(***************************************************************************)
(* Properties of the delimited-text matrix.                                *)
(***************************************************************************)
\* the text of the lines of the matrix, once it has been put out
MatrixLines ==
    [j \in 1..(NCompOpt + 1) |-> printed[Len(printed) - NCompOpt - 1 + j][1]]

\* the comma-separated fields of line j of the matrix
Fields(j) == split(MatrixLines[j], ",")

IsDigits(t) ==
    /\ t # <<>>
    /\ \A i \in DOMAIN t : \E d \in 0..9 : DigitChars[d + 1] = t[i]

\* the number a sequence of digits denotes
RECURSIVE Number(_)
Number(t) ==
    IF t = <<>> THEN 0
    ELSE Number(SubSeq(t, 1, Len(t) - 1)) * 10
         + (CHOOSE d \in 0..9 : DigitChars[d + 1] = t[Len(t)])

RECURSIVE Pow10(_)
Pow10(n) == IF n = 0 THEN 1 ELSE 10 * Pow10(n - 1)

\* the field is a decimal number: digits, a point, digits
IsDecimal(f) ==
    /\ Len(split(f, ".")) = 2
    /\ IsDigits(split(f, ".")[1])
    /\ IsDigits(split(f, ".")[2])

\* the number a decimal field denotes
ValueOf(f) ==
    LET whole == split(f, ".")[1]
        frac == split(f, ".")[2]
    IN Norm(Number(whole) * Pow10(Len(frac)) + Number(frac), Pow10(Len(frac)))

\* the field is a decimal number with two decimals, the nearest to r
IsNearest2f(f, r) ==
    /\ IsDecimal(f)
    /\ Len(split(f, ".")[2]) = 2
    /\ LET h == Number(split(f, ".")[1]) * 100 + Number(split(f, ".")[2])
       IN 2 * Abs(h * r[2] - 100 * r[1]) <= r[2]

\* the header line, one line per compiler/option label, NLangTech + 1
\* fields in every line, and a data field empty exactly for a cell that is 0
MatrixShape ==
    /\ Len(printed) >= NCompOpt + 1
    /\ Fields(1) = <<Chars("Compiler")>>
                     \o [i \in 1..NLangTech |-> Chars(LangTechList[i])]
    /\ \A k \in 1..NumTests :
          /\ \E i \in 1..NLangTech :
                Fields(1)[i + 1] = Chars(FullTests[k].LangTech)
          /\ \E j \in 1..NCompOpt :
                Fields(j + 1)[1] = Chars(FullTests[k].CompOpt)
    /\ \A j \in 1..NCompOpt :
          /\ Len(Fields(j + 1)) = NLangTech + 1
          /\ Fields(j + 1)[1] = Chars(CompOptList[j])
          /\ \A i \in 1..NLangTech :
                (Fields(j + 1)[i + 1] = <<>>) <=> (Results[<<i, j>>] = Zero)

\* C13 as stated: the matrix has that shape, and a data field that is not
\* empty is the cell value divided by BenchKIterSecs.
C13_Original ==
    pc = "done" =>
        /\ MatrixShape
        /\ \A c \in Positives :
              /\ IsDecimal(Fields(c[2] + 1)[c[1] + 1])
              /\ ValueOf(Fields(c[2] + 1)[c[1] + 1])
                    = RDiv(Results[c], BenchKIterSecs)

\* C13 as amended: the matrix has that shape, and a data field that is not
\* empty is the cell value divided by BenchKIterSecs rounded to two decimals.
C13_MatrixRounded ==
    pc = "done" =>
        /\ MatrixShape
        /\ \A c \in Positives :
              IsNearest2f(Fields(c[2] + 1)[c[1] + 1],
                          RDiv(Results[c], BenchKIterSecs))

\* a matrix with empty fields, the field 1.00 of the fastest cell and a field
\* that had to be rounded
C13_Witness ==
    /\ pc = "done"
    /\ Cardinality(Positives) >= 2
    /\ Positives # Cells
    /\ \E c \in Positives : Fields(c[2] + 1)[c[1] + 1] = <<"1", ".", "0", "0">>
    /\ \E c \in Positives :
          ValueOf(Fields(c[2] + 1)[c[1] + 1]) # RDiv(Results[c], BenchKIterSecs)

(***************************************************************************)
(* Properties of ExecuteCommand.                                           *)
(***************************************************************************)
\* C4: ExecuteCommand returns Status None exactly when the command was
\* launched and exited with status zero, whatever it wrote; otherwise
\* Status is the error string that holds the command.
C4_StatusIffExitZero ==
    ret.pc = "returned" =>
        /\ (ret.Status = None) <=> (xproc.launch = "ok" /\ xproc.exit = 0)
        /\ ret.Status # None =>
               ret.Status = "Error executing '" \o xcmd \o "'"

\* the version command was launched, wrote valid text and exited with zero
VersionSucceeded ==
    /\ xproc.launch = "ok"
    /\ xproc.outValid
    /\ xproc.errValid
    /\ xproc.exit = 0

\* C12: a call of ListVersion puts out one line: when the version command
\* succeeds, the first line of what the command wrote (to standard output
\* or, if that is empty, to standard error), after the language name.
C12_OneLine ==
    (Lang # None /\ ret.pc = "returned") =>
        /\ Len(printed) = 1
        /\ VersionSucceeded =>
               \E t \in {xproc.out, xproc.err} :
                   /\ t # <<>>
                   /\ printed[1] = <<Lang, ":", split(t, "\n")[1]>>

(***************************************************************************)
(* Properties of the kernels.                                              *)
(***************************************************************************)
\* C9: after subr of csub.py, out[iy, ix] = ina[iy, ix] + ix + iy for every
\* 0 <= iy < ny and 0 <= ix < nx, the sum taken from left to right in the
\* arithmetic of the array.
C9_SubrAddsIndices ==
    "csub" \in called =>
        \A iy \in 0..(ny - 1), ix \in 0..(nx - 1) :
            out[<<iy, ix>>] = FRound(FRound(ina[<<iy, ix>>] + ix) + iy)

\* subr of csub.py has run on an array with several rows and columns
C9_Witness ==
    /\ "csub" \in called
    /\ nx = 2
    /\ ny = 2
    /\ \E c \in DOMAIN out : out[c] # ina[c] /\ ina[c] # 0

\* C10: subr of csubnpv.py leaves the same out array as subr of csub.py,
\* for every input array and all dimensions, in both of its branches.
C10_SameAsReference ==
    called = {"csub", "csubnpv"} => outv = out

\* every element, with its two indices added, is a float of the format
Exact ==
    \A c \in DOMAIN ina : Abs(ina[c]) + nx + ny <= Pow2(MantBits)

\* the two kernels agree on the arrays whose sums need no rounding
AgreeWhereExact ==
    (called = {"csub", "csubnpv"} /\ Exact) => outv = out

\* C11: subr of csubnpna.py leaves the same out array as subr of csub.py,
\* for every input array and all dimensions.
C11_SameAsReference ==
    called = {"csub", "csubnpna"} => outna = out

\* both kernels have run on an array where each of the two additions rounds
C11_Witness ==
    /\ called = {"csub", "csubnpna"}
    /\ nx = 2
    /\ ny = 2
    /\ ina[<<1, 1>>] = Pow2(MantBits)
    /\ out[<<1, 1>>] # ina[<<1, 1>>] + 2
    /\ outna = out

====
